---- MODULE Spec2Model ----
(***************************************************************************)
(* Hidato on a beehive grid: the puzzle engine of hidatoUtils.ts (grid     *)
(* shape, hex neighbours, Hamiltonian-path generation, masking, solution   *)
(* checking) as called by Board.generateNewPuzzle and Board.checkCompletion.*)
(*                                                                         *)
(* A Grid is a sequence of rows, a row a sequence of cells.  The source    *)
(* indexes from 0; the operators below take and return 0-based (x, y) =    *)
(* (column, row) positions and At/SetCell do the shift to TLA+'s 1-based   *)
(* sequences.  A cell is NULL (null: not part of the shape), 0 (empty) or  *)
(* a number.                                                               *)
(***************************************************************************)
EXTENDS Integers, Sequences, FiniteSets, TLC

\* ------------------------------------------------------------- bounds
\* generateHexGrid is applied to every side in 1..MaxSide.
MaxSide == 5
\* ... and to every non-positive side in -MaxNonPositive..0.
MaxNonPositive == 2
\* The path generator runs on generateHexGrid(n) for n in 1..MaxGenSide.
MaxGenSide == 3
\* maskHexGrid and the edited boards given to checkSolution have at most
\* MaxBoardCells non-null cells.
MaxBoardCells == 7
\* maskHexGrid is applied with revealCount in 0..MaxReveal.
MaxReveal == 6
\* A board given to checkSolution is a generated solution with at most MaxEdits
\* cells overwritten.
MaxEdits == 2
\* generateWarnsdorffPath is applied to every size in 1..MaxSquareSize.
MaxSquareSize == 8
\* The player types the digit keys 0..MaxDigit, and Board runs
\* applyNumberToCell at most MaxCommits times.
MaxDigit == 3
MaxCommits == 1

\* ------------------------------------------------------------- cells and grids
\* null of type Grid = (number | null)[][]: a value no cell number takes.
NULL == -1

Rep(v, k) == [i \in 1..k |-> v]

At(grid, x, y) == grid[y + 1][x + 1]

SetCell(grid, x, y, v) == [grid EXCEPT ![y + 1][x + 1] = v]

\* grid.map(row => row.map(cell => (cell === null ? null : 0)))
BlankCopy(grid) ==
  [r \in DOMAIN grid |-> [c \in DOMAIN grid[r] |-> IF grid[r][c] = NULL THEN NULL ELSE 0]]

\* The non-null positions [x, y] of a grid in row-major order (the nested
\* y/x loops of generateHexHamiltonianPath and maskHexGrid).
RECURSIVE RowPositions(_, _, _)
RowPositions(grid, y, x) ==
  IF x >= Len(grid[y + 1]) THEN <<>>
  ELSE (IF At(grid, x, y) # NULL THEN <<<<x, y>>>> ELSE <<>>) \o RowPositions(grid, y, x + 1)

RECURSIVE PositionsFrom(_, _)
PositionsFrom(grid, y) ==
  IF y >= Len(grid) THEN <<>>
  ELSE RowPositions(grid, y, 0) \o PositionsFrom(grid, y + 1)

Positions(grid) == PositionsFrom(grid, 0)

\* solution.flat().filter(cell => cell !== null).length
NonNullCount(grid) ==
  Cardinality({rc \in UNION {{<<r, c>> : c \in DOMAIN grid[r]} : r \in DOMAIN grid} :
                 grid[rc[1]][rc[2]] # NULL})

\* ------------------------------------------------------------- generateHexGrid
\* The spacer pushed before the value.
AlternateSpacerFirst(value, nonNulls) ==
  [i \in 1..(2 * nonNulls) |-> IF i % 2 = 0 THEN value + ((i - 1) \div 2) ELSE NULL]

\* for (i < nonNulls) { arr.push(value++); arr.push(null) }
Alternate(value, nonNulls) ==
  [i \in 1..(2 * nonNulls) |-> IF i % 2 = 1 THEN value + ((i - 1) \div 2) ELSE NULL]

\* The row count growing through the lower half too.
RowNonNullsGrowing(n, row) == n + row

\* const nonNulls = n + (row < n ? row : totalRows - 1 - row)
RowNonNulls(n, row) == n + (IF row < n THEN row ELSE (2 * n - 1) - 1 - row)

\* One row of the numbered grid: left padding, value/null pairs, right padding.
HexRow(n, row, value) ==
  LET nonNulls == RowNonNulls(n, row)
      pad == (2 * n - 1) - nonNulls
  IN Rep(NULL, pad) \o Alternate(value, nonNulls) \o Rep(NULL, pad)

RECURSIVE HexRows(_, _, _, _)
HexRows(n, row, value, grid) ==
  IF row >= 2 * n - 1 THEN grid
  ELSE HexRows(n, row + 1, value + RowNonNulls(n, row), Append(grid, HexRow(n, row, value)))

generateHexGrid(n) == BlankCopy(HexRows(n, 0, 1, <<>>))

\* ------------------------------------------------------------- getHexNeighbors
\* BEEHIVE_NEIGHBOR_OFFSETS, each read as [dy, dx]
BEEHIVE_NEIGHBOR_OFFSETS ==
  << <<-1, -1>>, <<-1, 1>>, <<1, -1>>, <<1, 1>>, <<0, -2>>, <<0, 2>> >>

\* The bounds test with the row count for the width: nx < grid.length
InGridSquare(grid, nx, ny) ==
  /\ ny >= 0 /\ ny < Len(grid)
  /\ nx >= 0 /\ nx < Len(grid)

\* ny >= 0 && ny < grid.length && nx >= 0 && nx < grid[ny].length
InGrid(grid, nx, ny) ==
  /\ ny >= 0 /\ ny < Len(grid)
  /\ nx >= 0 /\ nx < Len(grid[ny + 1])

\* The neighbours without the "grid[ny][nx] !== null" test.
getHexNeighborsInBounds(x, y, grid) ==
  LET cand == [i \in DOMAIN BEEHIVE_NEIGHBOR_OFFSETS |->
                 <<x + BEEHIVE_NEIGHBOR_OFFSETS[i][2], y + BEEHIVE_NEIGHBOR_OFFSETS[i][1]>>]
      Valid(p) == InGrid(grid, p[1], p[2])
  IN SelectSeq(cand, Valid)

\* The in-bounds, non-null neighbours [nx, ny] of (x, y), in offset order.
getHexNeighbors(x, y, grid) ==
  LET cand == [i \in DOMAIN BEEHIVE_NEIGHBOR_OFFSETS |->
                 <<x + BEEHIVE_NEIGHBOR_OFFSETS[i][2], y + BEEHIVE_NEIGHBOR_OFFSETS[i][1]>>]
      Valid(p) == InGrid(grid, p[1], p[2]) /\ At(grid, p[1], p[2]) # NULL
  IN SelectSeq(cand, Valid)

\* The neighbours without the "=== 0" filter.
AnyHexNeighbors(x, y, grid) == getHexNeighbors(x, y, grid)

\* getHexNeighbors(...).filter(([qx, qy]) => pathGrid[qy][qx] === 0)
EmptyHexNeighbors(x, y, grid) ==
  LET IsEmpty(p) == At(grid, p[1], p[2]) = 0
  IN SelectSeq(getHexNeighbors(x, y, grid), IsEmpty)

\* ------------------------------------------------------------- Array.prototype.sort
\* items.sort((a, b) => key(b) - key(a))
RECURSIVE SortByKeyDescending(_, _, _, _)
SortByKeyDescending(items, keys, from, last) ==
  IF from > last THEN <<>>
  ELSE LET HasKey(e) == <<e, last>> \in keys
       IN SelectSeq(items, HasKey) \o SortByKeyDescending(items, keys, from, last - 1)

\* items.sort((a, b) => key(a) - key(b)), keys holding the pair <<e, key(e)>>
\* of every item e, the keys in from..last. The sort is stable: the items of
\* each key in turn, those with equal keys (the comparator returns 0 for
\* them) in the order they had.
RECURSIVE SortByKey(_, _, _, _)
SortByKey(items, keys, from, last) ==
  IF from > last THEN <<>>
  ELSE LET HasKey(e) == <<e, from>> \in keys
       IN SelectSeq(items, HasKey) \o SortByKey(items, keys, from + 1, last)

\* ------------------------------------------------------------- generateHexHamiltonianPath
\* The candidates of dfs at (x, y): the empty hex neighbours, sorted by their
\* own number of empty hex neighbours (Warnsdorff).
SortedCandidates(x, y, pathGrid) ==
  LET ns == EmptyHexNeighbors(x, y, pathGrid)
      onward == {<<ns[i], Len(EmptyHexNeighbors(ns[i][1], ns[i][2], pathGrid))>> : i \in DOMAIN ns}
  IN SortByKey(ns, onward, 0, Len(BEEHIVE_NEIGHBOR_OFFSETS))

\* The cell left as it is when dfs gives up.
BacktrackKeep(pathGrid, x, y) == pathGrid

\* What dfs leaves in the cell it gives up on: pathGrid[y][x] = 0
Backtrack(pathGrid, x, y) == SetCell(pathGrid, x, y, 0)

\* The path is one cell short when dfs stops.
PathCompleteEarly(num, total) == num >= total - 1

\* if (num === total) return true
PathComplete(num, total) == num = total

\* dfs(x, y, num) on the working board pathGrid: [found, grid], grid being
\* pathGrid as the call leaves it.
RECURSIVE dfs(_, _, _, _, _)
RECURSIVE TryCandidates(_, _, _, _, _, _, _)
dfs(pathGrid, x, y, num, total) ==
  LET placed == SetCell(pathGrid, x, y, num)
  IN IF PathComplete(num, total) THEN [found |-> TRUE, grid |-> placed]
     ELSE TryCandidates(placed, SortedCandidates(x, y, placed), 1, x, y, num, total)

\* The loop left after its first candidate: return dfs(nx, ny, num + 1).
TryCandidatesFirstOnly(pathGrid, neighbors, i, x, y, num, total) ==
  IF i > Len(neighbors) \/ i > 1 THEN [found |-> FALSE, grid |-> Backtrack(pathGrid, x, y)]
  ELSE LET r == dfs(pathGrid, neighbors[i][1], neighbors[i][2], num + 1, total)
       IN IF r.found THEN r
          ELSE TryCandidates(r.grid, neighbors, i + 1, x, y, num, total)

\* for (const [nx, ny] of neighbors) if (dfs(nx, ny, num + 1)) return true;
\* then pathGrid[y][x] = 0; return false
TryCandidates(pathGrid, neighbors, i, x, y, num, total) ==
  IF i > Len(neighbors) THEN [found |-> FALSE, grid |-> Backtrack(pathGrid, x, y)]
  ELSE LET r == dfs(pathGrid, neighbors[i][1], neighbors[i][2], num + 1, total)
       IN IF r.found THEN r
          ELSE TryCandidates(r.grid, neighbors, i + 1, x, y, num, total)

\* generateHexHamiltonianPath(grid) with cells[Math.floor(Math.random() *
\* cells.length)] = st: [found, grid]; found = FALSE is the throw.
generateHexHamiltonianPath(grid, st) ==
  dfs(BlankCopy(grid), st[1], st[2], 1, NonNullCount(grid))

\* ------------------------------------------------------------- checkSolution
\* Completeness looked for in the first grid.length columns only.
isCompleteScanned(grid) ==
  \A r \in DOMAIN grid : \A c \in DOMAIN grid[r] :
    c > Len(grid) \/ grid[r][c] = NULL \/ grid[r][c] # 0

\* grid.every(row => row.every(cell => cell === null || cell !== 0))
isComplete(grid) ==
  \A r \in DOMAIN grid : \A c \in DOMAIN grid[r] : grid[r][c] = NULL \/ grid[r][c] # 0

\* The cells the two nested loops "i < size, j < size" visit, size = grid.length,
\* as [x, y] = [column, row] in visiting order, nulls skipped (continue).
RECURSIVE ScanFrom(_, _, _, _)
ScanFrom(grid, n, row, col) ==
  IF row >= n THEN <<>>
  ELSE IF col >= n THEN ScanFrom(grid, n, row + 1, 0)
  ELSE (IF At(grid, col, row) # NULL THEN <<<<col, row>>>> ELSE <<>>)
         \o ScanFrom(grid, n, row, col + 1)

Scanned(grid) == ScanFrom(grid, Len(grid), 0, 0)

\* First loop: value < 1 || value > maxNumber || numbers.has(value) returns false.
RangeAndUnique(grid, maxN) ==
  LET cells == Scanned(grid)
      val(k) == At(grid, cells[k][1], cells[k][2])
  IN \A k \in DOMAIN cells :
       /\ val(k) >= 1
       /\ val(k) <= maxN
       /\ \A j \in 1..(k - 1) : val(j) # val(k)

\* The neighbours taken at (row, col) instead of (col, row).
HasNextHexSwapped(grid, col, row) ==
  LET neighbors == getHexNeighbors(row, col, grid)
  IN \E k \in DOMAIN neighbors :
       At(grid, neighbors[k][1], neighbors[k][2]) = At(grid, col, row) + 1

\* neighbors.some(([c, r]) => grid[r][c] === nextValue)
HasNextHex(grid, col, row) ==
  LET neighbors == getHexNeighbors(col, row, grid)
  IN \E k \in DOMAIN neighbors :
       At(grid, neighbors[k][1], neighbors[k][2]) = At(grid, col, row) + 1

\* Second loop of the hex checker.
ConnectedHex(grid, maxN) ==
  LET cells == Scanned(grid)
  IN \A k \in DOMAIN cells :
       At(grid, cells[k][1], cells[k][2]) = maxN \/ HasNextHex(grid, cells[k][1], cells[k][2])

\* checkSolution(grid, maxNumber), the checker Board.checkCompletion calls.
checkSolution(grid, maxN) ==
  /\ isComplete(grid)
  /\ RangeAndUnique(grid, maxN)
  /\ ConnectedHex(grid, maxN)

\* The 8 surrounding cells (di, dj in -1..1, not both 0) of the square checker.
HasNextSquare(grid, i, j) ==
  \E di \in -1..1 : \E dj \in -1..1 :
    /\ ~(di = 0 /\ dj = 0)
    /\ i + di >= 0 /\ i + di < Len(grid)
    /\ j + dj >= 0 /\ j + dj < Len(grid)
    /\ At(grid, j + dj, i + di) # NULL
    /\ At(grid, j + dj, i + di) = At(grid, j, i) + 1

\* checkSolution(grid) of the square variant: maxNumber = size * size.
checkSolutionSquare(grid) ==
  LET maxN == Len(grid) * Len(grid)
      cells == Scanned(grid)
  IN /\ isComplete(grid)
     /\ RangeAndUnique(grid, maxN)
     /\ \A k \in DOMAIN cells :
          At(grid, cells[k][1], cells[k][2]) = maxN \/ HasNextSquare(grid, cells[k][2], cells[k][1])

\* ------------------------------------------------------------- maskHexGrid
\* Math.max(...positions.map(([x, y]) => solution[y][x]))
MaxValue(grid) ==
  LET ps == Positions(grid)
  IN CHOOSE m \in {At(grid, ps[k][1], ps[k][2]) : k \in DOMAIN ps} :
       \A k \in DOMAIN ps : At(grid, ps[k][1], ps[k][2]) <= m

\* for (const [x, y] of positions) if (solution[y][x] === v) pos = [x, y]:
\* the last position holding v, <<>> (null) when there is none.
LastHolding(grid, v) ==
  LET ps == Positions(grid)
      hits == {k \in DOMAIN ps : At(grid, ps[k][1], ps[k][2]) = v}
  IN IF hits = {} THEN <<>> ELSE ps[CHOOSE k \in hits : \A j \in hits : j <= k]

\* The candidates with only firstPos removed.
RevealCandidatesKeepLast(sol) ==
  LET firstPos == LastHolding(sol, 1)
      Keep(p) == p # firstPos
  IN SelectSeq(Positions(sol), Keep)

\* positions without firstPos and lastPos
RevealCandidates(sol) ==
  LET firstPos == LastHolding(sol, 1)
      lastPos == LastHolding(sol, MaxValue(sol))
      Keep(p) == p # firstPos /\ p # lastPos
  IN SelectSeq(Positions(sol), Keep)

\* [filtered[i], filtered[j]] = [filtered[j], filtered[i]], 0-based i and j
Swap(filtered, i, j) ==
  [filtered EXCEPT ![i + 1] = filtered[j + 1], ![j + 1] = filtered[i + 1]]

\* for (i = filtered.length - 1; i > 0; i--) swap(i, j), j = floor(random * (i + 1));
\* js[i] is the j drawn at step i.
RECURSIVE Shuffle(_, _, _)
Shuffle(filtered, i, js) ==
  IF i <= 0 THEN filtered ELSE Shuffle(Swap(filtered, i, js[i]), i - 1, js)

\* The draws of one shuffle of len items: js[i] in 0..i for i in 1..len-1.
Draws(len) == {js \in [1..(len - 1) -> 0..(len - 1)] : \A i \in 1..(len - 1) : js[i] <= i}

\* for (i = 0; i < revealCount && i < filtered.length; i++) puzzle[y][x] = solution[y][x]
RECURSIVE Reveal(_, _, _, _, _)
Reveal(pz, sol, filtered, i, count) ==
  IF ~(i < count /\ i < Len(filtered)) THEN pz
  ELSE Reveal(SetCell(pz, filtered[i + 1][1], filtered[i + 1][2],
                      At(sol, filtered[i + 1][1], filtered[i + 1][2])),
              sol, filtered, i + 1, count)

\* The puzzle built without the null test: row.map(cell => 0).
RevealAnchorsUnblocked(sol) ==
  LET firstPos == LastHolding(sol, 1)
      lastPos == LastHolding(sol, MaxValue(sol))
      zeros == [r \in DOMAIN sol |-> [c \in DOMAIN sol[r] |-> 0]]
      p1 == IF firstPos # <<>> THEN SetCell(zeros, firstPos[1], firstPos[2], 1) ELSE zeros
  IN IF lastPos # <<>> THEN SetCell(p1, lastPos[1], lastPos[2], MaxValue(sol)) ELSE p1

\* Only the cell holding 1 is revealed.
RevealFirstOnly(sol) ==
  LET firstPos == LastHolding(sol, 1)
  IN IF firstPos # <<>> THEN SetCell(BlankCopy(sol), firstPos[1], firstPos[2], 1)
     ELSE BlankCopy(sol)

\* if (firstPos) puzzle[..] = 1; if (lastPos) puzzle[..] = max
RevealAnchors(sol) ==
  LET firstPos == LastHolding(sol, 1)
      lastPos == LastHolding(sol, MaxValue(sol))
      p1 == IF firstPos # <<>> THEN SetCell(BlankCopy(sol), firstPos[1], firstPos[2], 1)
            ELSE BlankCopy(sol)
  IN IF lastPos # <<>> THEN SetCell(p1, lastPos[1], lastPos[2], MaxValue(sol)) ELSE p1

\* maskHexGrid(solution, revealCount) with the shuffle's draws js.
maskHexGrid(sol, count, js) ==
  LET filtered == RevealCandidates(sol)
      shuffled == Shuffle(filtered, Len(filtered) - 1, js)
  IN Reveal(RevealAnchors(sol), sol, shuffled, 0, count)

\* ------------------------------------------------------------- generateWarnsdorffPath
\* const maxTries = 1000
maxTries == 1000

\* The (dx, dy) pairs of "for dx in -1..1, for dy in -1..1, skip (0, 0)", in loop order.
SquareOffsets ==
  << <<-1, -1>>, <<-1, 0>>, <<-1, 1>>, <<0, -1>>, <<0, 1>>, <<1, -1>>, <<1, 0>>, <<1, 1>> >>

\* The in-bounds neighbours [nx, ny] of (x, y) with grid[ny][nx] === 0, in loop order.
UnvisitedNeighbors(grid, x, y) ==
  LET n == Len(grid)
      cand == [i \in DOMAIN SquareOffsets |-> <<x + SquareOffsets[i][1], y + SquareOffsets[i][2]>>]
      Free(p) == /\ p[1] >= 0 /\ p[1] < n /\ p[2] >= 0 /\ p[2] < n
                 /\ At(grid, p[1], p[2]) = 0
  IN SelectSeq(cand, Free)

countUnvisitedNeighbors(grid, x, y) == Len(UnvisitedNeighbors(grid, x, y))

\* neighbors.sort(by countUnvisitedNeighbors)[0]
LeastOnward(grid, neighbors) ==
  LET onward == {<<neighbors[i], countUnvisitedNeighbors(grid, neighbors[i][1], neighbors[i][2])>> :
                   i \in DOMAIN neighbors}
  IN SortByKey(neighbors, onward, 0, Len(SquareOffsets))[1]

\* The inner loop "for (num = 2; num <= maxNumber; num++)" from (x, y):
\* "returned" with the grid, "failed" at a dead end, or "ended" when the loop
\* runs out without either.
RECURSIVE Extend(_, _, _, _, _)
Extend(grid, x, y, num, maxN) ==
  IF num > maxN THEN [outcome |-> "ended", grid |-> grid]
  ELSE LET neighbors == UnvisitedNeighbors(grid, x, y)
       IN IF neighbors = <<>> THEN [outcome |-> "failed", grid |-> grid]
          ELSE LET nxt == LeastOnward(grid, neighbors)
                   placed == SetCell(grid, nxt[1], nxt[2], num)
               IN IF num = maxN THEN [outcome |-> "returned", grid |-> placed]
                  ELSE Extend(placed, nxt[1], nxt[2], num + 1, maxN)

\* One pass of the attempt loop with the random start (x, y).
WarnsdorffAttempt(sz, x, y) ==
  Extend(SetCell(Rep(Rep(0, sz), sz), x, y, 1), x, y, 2, sz * sz)

\* Every size's and every start's pass: <<sz, x, y, result>>.
AllAttempts ==
  UNION {{<<sz, x, y, WarnsdorffAttempt(sz, x, y)>> : x \in 0..(sz - 1), y \in 0..(sz - 1)} :
           sz \in 1..MaxSquareSize}

\* ------------------------------------------------------------- inputs
\* Shapes other than the hexagon given to the exported generator: a row of
\* three cells with a fourth below the first two (no path from the middle of
\* the row), a centre with three mutually non-adjacent neighbours (no path at
\* all), and a hook on which the search from (1, 0) gives candidates up before
\* it finds the path.
BranchShape == << <<0, NULL, 0, NULL, 0>>, <<NULL, 0, NULL, NULL, NULL>> >>

StarShape ==
  << <<NULL, 0, NULL, NULL, NULL>>, <<NULL, NULL, 0, NULL, 0>>, <<NULL, 0, NULL, NULL, NULL>> >>

DetourShape ==
  << <<NULL, 0, NULL, 0, NULL, 0>>, <<NULL, NULL, 0, NULL, 0, NULL>>,
     <<NULL, 0, NULL, NULL, NULL, NULL>> >>

OtherShapes == {BranchShape, StarShape, DetourShape}

\* The non-null positions [x, y] of a grid, as a set.
PositionSet(grid) ==
  {p \in UNION {{<<c - 1, r - 1>> : c \in DOMAIN grid[r]} : r \in DOMAIN grid} :
     At(grid, p[1], p[2]) # NULL}

\* The boards the generator returns for a shape, over every start.
SolutionsOf(grid) ==
  {r.grid : r \in {q \in {generateHexHamiltonianPath(grid, st) : st \in PositionSet(grid)} : q.found}}

\* What a cell of an edited board may hold: empty, below 1, above N, or any of 1..N.
EditValues(N) == (-2..(N + 1)) \ {NULL}

\* The shapes whose boards are masked and edited.
HexShapes == {generateHexGrid(n) : n \in 1..MaxSide}

SmallShapes == {g \in HexShapes \cup OtherShapes : NonNullCount(g) <= MaxBoardCells}

\* ------------------------------------------------------------- state
VARIABLES
  pc,          \* where the run is
  side,        \* the side given to generateHexGrid (0: none)
  shape,       \* the empty grid given to the path generator
  start,       \* the generator's random start cell
  solution,    \* the board the path generator returned
  revealCount, \* the revealCount given to maskHexGrid
  puzzle,      \* the board maskHexGrid returned
  board,       \* the board given to checkSolution
  maxNumber,   \* the maxNumber given to checkSolution
  edits,       \* how many cells of board were overwritten
  verdict,     \* what checkSolution(board, maxNumber) returned
  verdictSq,   \* what the square checkSolution(board) returned
  size,        \* the size given to generateWarnsdorffPath
  attempt,     \* its loop variable
  sqGrid,      \* the grid it returned
  nbrAt,       \* the (x, y) given to getHexNeighbors
  nbrResult,   \* what getHexNeighbors returned
  difficulty,  \* Board's difficulty prop
  heap,        \* the row arrays allocated so far; a row's reference is its index
  inRef,       \* the rows (references) of the board given to a function
  outRef,      \* the rows (references) of the board it returned
  inBefore,    \* the cells of the given board when the call began
  selectedCell,\* Board state: [row, col] or <<>> (null)
  inputValue,  \* Board state: the typed digits
  checkedGrid, \* the board the last checkCompletion gave to checkSolution
  completions, \* how many times onComplete was invoked
  commits,     \* how many times applyNumberToCell ran
  working,     \* dfs: pathGrid
  frames,      \* dfs: the calls in progress, outermost first
  lastFalse,   \* dfs: the call that has just returned false
  abandoned    \* dfs: the paths whose last call has returned false (history)

vars == <<pc, side, shape, start, solution, revealCount, puzzle, board, maxNumber,
          edits, verdict, verdictSq, size, attempt, sqGrid, nbrAt, nbrResult,
          difficulty, heap, inRef, outRef, inBefore, selectedCell, inputValue,
          checkedGrid, completions, commits, working, frames, lastFalse, abandoned>>

hexVars == <<side, shape, start, solution, revealCount, puzzle>>
checkVars == <<board, maxNumber, edits, verdict, verdictSq>>
squareVars == <<size, attempt, sqGrid>>
nbrVars == <<nbrAt, nbrResult>>
heapVars == <<heap, inRef, outRef, inBefore>>
boardVars == <<selectedCell, inputValue, checkedGrid, completions, commits>>
searchVars == <<working, frames, lastFalse, abandoned>>

\* What a variable holds before anything has set it.
BlankLater ==
  /\ nbrAt = <<>> /\ nbrResult = <<>> /\ difficulty = ""
  /\ heap = <<>> /\ inRef = <<>> /\ outRef = <<>> /\ inBefore = <<>>
  /\ selectedCell = <<>> /\ inputValue = <<>> /\ checkedGrid = <<>>
  /\ completions = 0 /\ commits = 0
  /\ working = <<>> /\ frames = <<>> /\ lastFalse = <<>> /\ abandoned = {}

Blank ==
  /\ side = 0 /\ shape = <<>> /\ start = <<>> /\ solution = <<>>
  /\ revealCount = 0 /\ puzzle = <<>>
  /\ board = <<>> /\ maxNumber = 0 /\ edits = 0 /\ verdict = FALSE /\ verdictSq = FALSE
  /\ size = 0 /\ attempt = 0 /\ sqGrid = <<>>
  /\ BlankLater

Init == pc = "idle" /\ Blank

\* ------------------------------------------------------------- Board.generateNewPuzzle
\* const emptyGrid = generateHexGrid(size)
GenerateHexGrid ==
  /\ pc = "idle"
  /\ \E n \in (0 - MaxNonPositive)..MaxSide :
       /\ side' = n
       /\ shape' = generateHexGrid(n)
  /\ pc' = "shape"
  /\ UNCHANGED <<start, solution, revealCount, puzzle, checkVars, squareVars>>
  /\ UNCHANGED <<nbrVars, difficulty, heapVars, boardVars, searchVars>>

\* A caller of the exported generator with a shape of its own.
GiveShape ==
  /\ pc = "idle"
  /\ \E g \in OtherShapes : shape' = g
  /\ pc' = "shape"
  /\ UNCHANGED <<side, start, solution, revealCount, puzzle, checkVars, squareVars>>
  /\ UNCHANGED <<nbrVars, difficulty, heapVars, boardVars, searchVars>>

\* const solution = generateHexHamiltonianPath(emptyGrid): returns or throws.
\* On a grid without cells, cells[0] is undefined and destructuring it throws.
GenerateHexHamiltonianPath ==
  /\ pc = "shape"
  /\ side <= MaxGenSide
  /\ \/ \E st \in PositionSet(shape) :
          LET r == generateHexHamiltonianPath(shape, st)
          IN /\ start' = st
             /\ solution' = IF r.found THEN r.grid ELSE <<>>
             /\ pc' = IF r.found THEN "returned" ELSE "thrown"
     \/ /\ PositionSet(shape) = {}
        /\ pc' = "thrown"
        /\ UNCHANGED <<start, solution>>
  /\ UNCHANGED <<side, shape, revealCount, puzzle, checkVars, squareVars>>
  /\ UNCHANGED <<nbrVars, difficulty, heapVars, boardVars, searchVars>>

\* const puzzle = maskHexGrid(solution, revealCount)
MaskHexGrid ==
  /\ pc = "returned"
  /\ NonNullCount(solution) <= MaxBoardCells
  /\ \E k \in 0..MaxReveal : \E js \in Draws(Len(RevealCandidates(solution))) :
       /\ revealCount' = k
       /\ puzzle' = maskHexGrid(solution, k, js)
  /\ pc' = "puzzle"
  /\ UNCHANGED <<side, shape, start, solution, checkVars, squareVars>>
  /\ UNCHANGED <<nbrVars, difficulty, heapVars, boardVars, searchVars>>

\* checkSolution(solution, N) on the generated board, N its non-null cell count.
CheckGenerated ==
  /\ pc = "returned"
  /\ board' = solution
  /\ maxNumber' = NonNullCount(solution)
  /\ verdict' = checkSolution(solution, NonNullCount(solution))
  /\ verdictSq' = checkSolutionSquare(solution)
  /\ pc' = "checked"
  /\ UNCHANGED <<hexVars, edits, squareVars>>
  /\ UNCHANGED <<nbrVars, difficulty, heapVars, boardVars, searchVars>>

\* revealPercent = { easy: 0.4, medium: 0.3, hard: 0.2 }[difficulty], in tenths.
RevealTenths(d) ==
  CASE d = "easy" -> 4
    [] d = "medium" -> 3
    [] d = "hard" -> 2

\* The product rounded to the nearest integer: Math.round.
RevealCountRounded(totalCells, d) == (totalCells * RevealTenths(d) + 5) \div 10

\* Math.floor(totalCells * revealPercent). The double product differs from
\* the exact one by less than 1e-13, so the two have the same floor unless the
\* exact product is an integer, and then the double product is that integer.
RevealCount(totalCells, d) == (totalCells * RevealTenths(d)) \div 10

\* A few of the shuffle's draws for a board too large to take them all: no
\* swap at all, every item swapped with the first, and one in between.
SomeDraws(len) ==
  {[i \in 1..(len - 1) |-> i], [i \in 1..(len - 1) |-> 0], [i \in 1..(len - 1) |-> i \div 2]}

PuzzleDraws(len) == IF len + 2 <= MaxBoardCells THEN Draws(len) ELSE SomeDraws(len)

\* Board.generateNewPuzzle() with props size and difficulty: the grid, the
\* path, the reveal count, the mask, then the state setters. A throw of the
\* generator leaves the handler before any setter.
GenerateNewPuzzle ==
  /\ pc = "idle"
  /\ \E n \in (0 - MaxNonPositive)..MaxGenSide :
       LET emptyGrid == generateHexGrid(n)
       IN /\ side' = n
          /\ shape' = emptyGrid
          /\ \/ \E st \in PositionSet(emptyGrid) :
                  LET r == generateHexHamiltonianPath(emptyGrid, st)
                      totalCells == NonNullCount(r.grid)
                  IN /\ start' = st
                     /\ IF r.found
                        THEN \E d \in {"easy", "medium", "hard"} :
                             \E js \in PuzzleDraws(Len(RevealCandidates(r.grid))) :
                               LET masked == maskHexGrid(r.grid, RevealCount(totalCells, d), js)
                               IN /\ difficulty' = d
                                  /\ solution' = r.grid
                                  /\ revealCount' = RevealCount(totalCells, d)
                                  /\ puzzle' = masked
                                  /\ board' = masked
                                  /\ maxNumber' = totalCells
                                  /\ pc' = "newPuzzle"
                        ELSE /\ pc' = "thrown"
                             /\ \E d \in {"easy", "medium", "hard"} : difficulty' = d
                             /\ UNCHANGED <<solution, revealCount, puzzle, board, maxNumber>>
             \/ /\ PositionSet(emptyGrid) = {}
                /\ pc' = "thrown"
                /\ \E d \in {"easy", "medium", "hard"} : difficulty' = d
                /\ UNCHANGED <<start, solution, revealCount, puzzle, board, maxNumber>>
  /\ selectedCell' = <<>>
  /\ inputValue' = <<>>
  /\ UNCHANGED <<edits, verdict, verdictSq, squareVars, nbrVars, heapVars>>
  /\ UNCHANGED <<checkedGrid, completions, commits, searchVars>>

\* The positions getHexNeighbors is asked about: every position of the grid and
\* those up to two steps outside it.
QueryPositions(g) ==
  LET width == IF g = <<>> THEN 0 ELSE Len(g[1])
  IN {<<x, y>> : x \in -2..(width + 1), y \in -2..(Len(g) + 1)}

\* getHexNeighbors(x, y, grid) on the shape.
GetHexNeighbors ==
  /\ pc = "shape"
  /\ \E p \in QueryPositions(shape) :
       /\ nbrAt' = p
       /\ nbrResult' = getHexNeighbors(p[1], p[2], shape)
  /\ pc' = "neighbors"
  /\ UNCHANGED <<hexVars, checkVars, squareVars>>
  /\ UNCHANGED <<difficulty, heapVars, boardVars, searchVars>>

\* ------------------------------------------------------------- generateWarnsdorffPath
CallWarnsdorff ==
  /\ pc = "idle"
  /\ \E sz \in 1..MaxSquareSize : size' = sz
  /\ attempt' = 0
  /\ pc' = "square"
  /\ UNCHANGED <<hexVars, checkVars, sqGrid>>
  /\ UNCHANGED <<nbrVars, difficulty, heapVars, boardVars, searchVars>>

\* One pass of "for (attempt = 0; attempt < maxTries; attempt++)": the pass
\* returns the grid, or fails and the loop goes on (or runs out: throw), or
\* ends without failing (break: throw). A return ends the call and its loop
\* variable with it; after a throw attempt tells how many passes had failed.
WarnsdorffPass ==
  /\ pc = "square"
  /\ attempt < maxTries
  /\ \E a \in {q \in AllAttempts : q[1] = size} :
       LET r == a[4]
       IN CASE r.outcome = "returned" ->
                 /\ sqGrid' = r.grid
                 /\ pc' = "sqReturned"
                 /\ attempt' = 0
            [] r.outcome = "failed" ->
                 /\ attempt' = attempt + 1
                 /\ pc' = IF attempt + 1 < maxTries THEN "square" ELSE "sqThrown"
                 /\ UNCHANGED sqGrid
            [] OTHER ->
                 /\ pc' = "sqThrown"
                 /\ UNCHANGED <<attempt, sqGrid>>
  /\ UNCHANGED <<hexVars, checkVars, size>>
  /\ UNCHANGED <<nbrVars, difficulty, heapVars, boardVars, searchVars>>

Next ==
  \/ GenerateHexGrid
  \/ GiveShape
  \/ GenerateHexHamiltonianPath
  \/ MaskHexGrid
  \/ CheckGenerated
  \/ GetHexNeighbors
  \/ GenerateNewPuzzle
  \/ CallWarnsdorff
  \/ WarnsdorffPass

Spec == Init /\ [][Next]_vars

\* ------------------------------------------------------------- checkSolution on edited boards
InitCheck ==
  /\ pc = "board"
  /\ side = 0 /\ shape = <<>> /\ start = <<>> /\ solution = <<>>
  /\ revealCount = 0 /\ puzzle = <<>>
  /\ \E g \in SmallShapes : board \in SolutionsOf(g)
  /\ maxNumber = NonNullCount(board)
  /\ edits = 0 /\ verdict = FALSE /\ verdictSq = FALSE
  /\ size = 0 /\ attempt = 0 /\ sqGrid = <<>>
  /\ BlankLater

\* One cell of the board is overwritten.
EditCell ==
  /\ pc = "board"
  /\ edits < MaxEdits
  /\ \E p \in PositionSet(board) : \E v \in EditValues(maxNumber) :
       board' = SetCell(board, p[1], p[2], v)
  /\ edits' = edits + 1
  /\ UNCHANGED <<pc, hexVars, maxNumber, verdict, verdictSq, squareVars>>
  /\ UNCHANGED <<nbrVars, difficulty, heapVars, boardVars, searchVars>>

\* checkSolution(board, maxNumber)
CheckBoard ==
  /\ pc = "board"
  /\ verdict' = checkSolution(board, maxNumber)
  /\ verdictSq' = checkSolutionSquare(board)
  /\ pc' = "verdict"
  /\ UNCHANGED <<hexVars, board, maxNumber, edits, squareVars>>
  /\ UNCHANGED <<nbrVars, difficulty, heapVars, boardVars, searchVars>>

NextCheck == EditCell \/ CheckBoard

SpecCheck == InitCheck /\ [][NextCheck]_vars

\* ------------------------------------------------------------- Board event handlers
\* A string of digits is the sequence of its digits; '' is <<>>.
\* String(v) for a cell value v >= 1
RECURSIVE String(_)
String(v) == IF v < 10 THEN <<v>> ELSE Append(String(v \div 10), v % 10)

\* parseInt(value) for a non-empty string of digits (parseInt('') is NaN)
RECURSIVE parseInt(_)
parseInt(value) ==
  IF Len(value) = 1 THEN value[1]
  ELSE 10 * parseInt(SubSeq(value, 1, Len(value) - 1)) + value[Len(value)]

\* !isNaN(numValue) && numValue >= 1 && numValue <= N
isValidNumber(value, N) ==
  value # <<>> /\ parseInt(value) >= 1 /\ parseInt(value) <= N

\* applyNumberToCell(row, col, value): the newGrid given to setGrid.
applyNumberToCell(g, row, col, value, N) ==
  SetCell(g, col, row, IF isValidNumber(value, N) THEN parseInt(value) ELSE 0)

\* The grid checkCompletion() reads when a handler calls it after
\* applyNumberToCell: the callback closes over the grid of the render that
\* created it, and setGrid(newGrid) changes no variable of that render.
CheckedByCompletion(g, newGrid) == g

\* The board the player looks at: a generated solution of at most
\* MaxBoardCells cells with some of the cells holding 2..MaxDigit still empty.
InitBoard ==
  /\ pc = "ready"
  /\ \E n \in 1..MaxSide :
       /\ side = n
       /\ shape = generateHexGrid(n)
       /\ NonNullCount(shape) <= MaxBoardCells
  /\ start = <<>>
  /\ solution \in SolutionsOf(shape)
  /\ revealCount = 0 /\ puzzle = <<>>
  /\ \E hidden \in SUBSET {p \in PositionSet(solution) :
                              At(solution, p[1], p[2]) \in 2..MaxDigit} :
       board = [r \in DOMAIN solution |-> [c \in DOMAIN solution[r] |->
                  IF <<c - 1, r - 1>> \in hidden THEN 0 ELSE solution[r][c]]]
  /\ maxNumber = NonNullCount(solution)
  /\ edits = 0 /\ verdict = FALSE /\ verdictSq = FALSE
  /\ size = 0 /\ attempt = 0 /\ sqGrid = <<>>
  /\ BlankLater

\* applyNumberToCell(row, col, inputValue) and, if it returns true,
\* checkCompletion(): setGrid(newGrid), then checkSolution(grid, N) and
\* onComplete() if that holds.
Commit(row, col) ==
  LET newGrid == applyNumberToCell(board, row, col, inputValue, maxNumber)
      checked == CheckedByCompletion(board, newGrid)
  IN /\ commits < MaxCommits
     /\ commits' = commits + 1
     /\ board' = newGrid
     /\ IF isValidNumber(inputValue, maxNumber)
        THEN /\ checkedGrid' = checked
             /\ verdict' = checkSolution(checked, maxNumber)
             /\ completions' = completions + (IF checkSolution(checked, maxNumber) THEN 1 ELSE 0)
             /\ pc' = "committed"
        ELSE /\ UNCHANGED <<checkedGrid, verdict, completions>>
             /\ pc' = "ready"

NoCommit ==
  /\ pc' = "ready"
  /\ UNCHANGED <<board, commits, checkedGrid, verdict, completions>>

boardFrame ==
  <<hexVars, maxNumber, edits, verdictSq, squareVars, nbrVars, difficulty, heapVars, searchVars>>

\* handleCellClick(row, col) on a rendered (non-null) cell, showSolution false
\* (with showSolution true the handler returns at once).
HandleCellClick ==
  /\ pc \in {"ready", "committed"}
  /\ \E p \in PositionSet(board) :
       LET row == p[2]
           col == p[1]
       IN IF selectedCell = <<row, col>>
          THEN /\ selectedCell' = <<>>
               /\ inputValue' = <<>>
               /\ NoCommit
          ELSE /\ IF selectedCell # <<>> /\ inputValue # <<>>
                  THEN Commit(selectedCell[1], selectedCell[2])
                  ELSE NoCommit
               /\ selectedCell' = <<row, col>>
               /\ inputValue' = IF At(board, col, row) = 0 THEN <<>>
                                ELSE String(At(board, col, row))
  /\ UNCHANGED boardFrame

\* handleKeyPress(e), e.key one of Enter, Escape, Backspace or a digit.
HandleKeyPress ==
  /\ pc \in {"ready", "committed"}
  /\ \/ /\ selectedCell # <<>>
        /\ Commit(selectedCell[1], selectedCell[2])
        /\ IF isValidNumber(inputValue, maxNumber)
           THEN selectedCell' = <<>> /\ inputValue' = <<>>
           ELSE UNCHANGED <<selectedCell, inputValue>>
     \/ /\ selectedCell' = <<>>
        /\ inputValue' = <<>>
        /\ NoCommit
     \/ /\ inputValue' = SubSeq(inputValue, 1, Len(inputValue) - 1)
        /\ UNCHANGED selectedCell
        /\ NoCommit
     \/ \E key \in 0..MaxDigit :
          /\ inputValue' = IF Len(inputValue) + 1 <= 2 THEN Append(inputValue, key)
                           ELSE inputValue
          /\ UNCHANGED selectedCell
          /\ NoCommit
  /\ UNCHANGED boardFrame

\* handleClickOutside(event), the target outside the board.
HandleClickOutside ==
  /\ pc \in {"ready", "committed"}
  /\ IF selectedCell # <<>> /\ inputValue # <<>>
     THEN Commit(selectedCell[1], selectedCell[2])
     ELSE NoCommit
  /\ selectedCell' = <<>>
  /\ inputValue' = <<>>
  /\ UNCHANGED boardFrame

NextBoard == HandleCellClick \/ HandleKeyPress \/ HandleClickOutside

SpecBoard == InitBoard /\ [][NextBoard]_vars

\* ------------------------------------------------------------- dfs, call by call
\* frames holds the calls of dfs in progress, the outermost first. A frame is
\* [x, y, num], the sorted array neighbors of that call, the number i of its
\* items the for-of loop has taken so far, and before, the working board as
\* it was when the call began.
\* generateHexHamiltonianPath up to "let found = false": the shape, the start
\* drawn and pathGrid.
InitSearch ==
  /\ pc = "dfsStart"
  /\ side = 0
  /\ shape \in {generateHexGrid(n) : n \in 1..MaxGenSide} \cup OtherShapes
  /\ start \in PositionSet(shape)
  /\ solution = <<>> /\ revealCount = 0 /\ puzzle = <<>>
  /\ board = <<>> /\ maxNumber = 0 /\ edits = 0 /\ verdict = FALSE /\ verdictSq = FALSE
  /\ size = 0 /\ attempt = 0 /\ sqGrid = <<>>
  /\ nbrAt = <<>> /\ nbrResult = <<>> /\ difficulty = ""
  /\ heap = <<>> /\ inRef = <<>> /\ outRef = <<>> /\ inBefore = <<>>
  /\ selectedCell = <<>> /\ inputValue = <<>> /\ checkedGrid = <<>>
  /\ completions = 0 /\ commits = 0
  /\ working = BlankCopy(shape)
  /\ frames = <<>>
  /\ lastFalse = <<>>
  /\ abandoned = {}

searchFrame ==
  <<side, shape, start, revealCount, puzzle, checkVars, squareVars, nbrVars, difficulty,
    heapVars, boardVars>>

\* The cells of the calls in progress, outermost first: the path that
\* pathGrid holds.
PathOf(calls) == [k \in DOMAIN calls |-> <<calls[k].x, calls[k].y>>]

\* The call dfs(x, y, num) up to its loop: pathGrid[y][x] = num, then either
\* "return true" (and every caller returns true in turn: found) or the sorted
\* neighbors.
Called(callers, x, y, num) ==
  LET placed == SetCell(working, x, y, num)
      done == PathComplete(num, NonNullCount(shape))
  IN /\ working' = placed
     /\ frames' = Append(callers,
                          [x |-> x, y |-> y, num |-> num,
                           neighbors |-> IF done THEN <<>> ELSE SortedCandidates(x, y, placed),
                           i |-> 0, before |-> working])
     /\ lastFalse' = <<>>
     /\ abandoned' = abandoned
     /\ pc' = IF done THEN "dfsReturned" ELSE "dfs"
     /\ solution' = IF done THEN placed ELSE solution

\* found = dfs(startX, startY, 1)
DfsStart ==
  /\ pc = "dfsStart"
  /\ Called(frames, start[1], start[2], 1)
  /\ UNCHANGED searchFrame

\* The loop of the innermost call takes an item without moving on to the next.
DfsCallSameItem ==
  /\ pc = "dfs"
  /\ LET f == frames[Len(frames)]
     IN /\ f.i < Len(f.neighbors)
        /\ Called(frames, f.neighbors[f.i + 1][1], f.neighbors[f.i + 1][2], f.num + 1)
  /\ UNCHANGED searchFrame

\* The loop of the innermost call takes its next item: dfs(nx, ny, num + 1).
DfsCall ==
  /\ pc = "dfs"
  /\ LET f == frames[Len(frames)]
     IN /\ f.i < Len(f.neighbors)
        /\ Called([frames EXCEPT ![Len(frames)].i = f.i + 1],
                  f.neighbors[f.i + 1][1], f.neighbors[f.i + 1][2], f.num + 1)
  /\ UNCHANGED searchFrame

\* The loop of the innermost call is over: pathGrid[y][x] = 0; return false.
\* The caller's loop goes on; with no caller, found is false and the
\* generator throws.
DfsReturnFalse ==
  /\ pc = "dfs"
  /\ LET f == frames[Len(frames)]
     IN /\ f.i = Len(f.neighbors)
        /\ working' = Backtrack(working, f.x, f.y)
        /\ frames' = SubSeq(frames, 1, Len(frames) - 1)
        /\ lastFalse' = f
        /\ abandoned' = abandoned \cup {PathOf(frames)}
        /\ pc' = IF Len(frames) = 1 THEN "dfsThrown" ELSE "dfs"
  /\ UNCHANGED <<solution, searchFrame>>

NextSearch == DfsStart \/ DfsCall \/ DfsReturnFalse

SpecSearch == InitSearch /\ [][NextSearch]_vars

\* The search is synchronous code: a call in progress keeps running until it
\* returns, so a step that can be taken is taken.
SpecSearchFair == SpecSearch /\ WF_vars(NextSearch)

\* ------------------------------------------------------------- arrays by reference
\* A Grid is an array of row arrays. heap holds the row arrays allocated so
\* far, a row's reference is its index in heap, and a board is the sequence of
\* its rows' references.
Deref(h, refs) == [i \in DOMAIN refs |-> h[refs[i]]]

\* The copy aliasing its source: const pathGrid = grid.
MapRowsAliased(h, refs) == [heap |-> h, refs |-> refs]

\* grid.map(row => row.map(cell => (cell === null ? null : 0))): a new row
\* array for every row of the source.
MapRows(h, refs) ==
  [heap |-> h \o BlankCopy(Deref(h, refs)),
   refs |-> [i \in DOMAIN refs |-> Len(h) + i]]

\* The heap after the writes target[y][x] = ... that leave the board behind
\* refs holding the cells of g.
StoreRows(h, refs, g) ==
  [i \in DOMAIN h |->
     IF \E k \in DOMAIN refs : refs[k] = i
     THEN g[CHOOSE k \in DOMAIN refs : refs[k] = i]
     ELSE h[i]]

\* A caller holding a shape.
InitHeap ==
  /\ pc = "heapShape"
  /\ side = 0 /\ shape = <<>> /\ start = <<>> /\ solution = <<>>
  /\ revealCount = 0 /\ puzzle = <<>>
  /\ board = <<>> /\ maxNumber = 0 /\ edits = 0 /\ verdict = FALSE /\ verdictSq = FALSE
  /\ size = 0 /\ attempt = 0 /\ sqGrid = <<>>
  /\ nbrAt = <<>> /\ nbrResult = <<>> /\ difficulty = ""
  /\ heap \in SmallShapes
  /\ inRef = [i \in DOMAIN heap |-> i]
  /\ outRef = <<>> /\ inBefore = <<>>
  /\ selectedCell = <<>> /\ inputValue = <<>> /\ checkedGrid = <<>>
  /\ completions = 0 /\ commits = 0
  /\ working = <<>> /\ frames = <<>> /\ lastFalse = <<>> /\ abandoned = {}

\* generateHexHamiltonianPath(grid): pathGrid is a mapped copy, dfs writes
\* pathGrid[y][x] only, and pathGrid is returned.
HeapGenerateHexHamiltonianPath ==
  /\ pc = "heapShape"
  /\ \E st \in PositionSet(Deref(heap, inRef)) :
       LET m == MapRows(heap, inRef)
           r == dfs(Deref(m.heap, m.refs), st[1], st[2], 1, NonNullCount(Deref(heap, inRef)))
       IN /\ heap' = StoreRows(m.heap, m.refs, r.grid)
          /\ outRef' = IF r.found THEN m.refs ELSE <<>>
          /\ pc' = IF r.found THEN "heapReturned" ELSE "heapThrown"
  /\ inBefore' = Deref(heap, inRef)
  /\ UNCHANGED <<inRef, hexVars, checkVars, squareVars, nbrVars, difficulty, boardVars, searchVars>>

\* maskHexGrid(solution, revealCount) on the board the generator returned:
\* puzzle is a mapped copy, the writes are puzzle[y][x] = ..., puzzle is returned.
HeapMaskHexGrid ==
  /\ pc = "heapReturned"
  /\ LET sol == Deref(heap, outRef)
         m == MapRows(heap, outRef)
     IN \E k \in 0..MaxReveal : \E js \in Draws(Len(RevealCandidates(sol))) :
          /\ heap' = StoreRows(m.heap, m.refs, maskHexGrid(sol, k, js))
          /\ outRef' = m.refs
          /\ inBefore' = sol
  /\ inRef' = outRef
  /\ pc' = "heapPuzzle"
  /\ UNCHANGED <<hexVars, checkVars, squareVars, nbrVars, difficulty, boardVars, searchVars>>

\* checkSolution(grid, maxNumber) on the returned board: the function holds no
\* assignment to grid or to a row of it.
HeapCheckSolution ==
  /\ pc \in {"heapReturned", "heapPuzzle"}
  /\ verdict' = checkSolution(Deref(heap, outRef), NonNullCount(Deref(heap, outRef)))
  /\ inRef' = outRef
  /\ inBefore' = Deref(heap, outRef)
  /\ outRef' = <<>>
  /\ pc' = "heapChecked"
  /\ UNCHANGED <<heap, hexVars, board, maxNumber, edits, verdictSq, squareVars>>
  /\ UNCHANGED <<nbrVars, difficulty, boardVars, searchVars>>

NextHeap == HeapGenerateHexHamiltonianPath \/ HeapMaskHexGrid \/ HeapCheckSolution

SpecHeap == InitHeap /\ [][NextHeap]_vars

\* ------------------------------------------------------------- properties
Min(a, b) == IF a <= b THEN a ELSE b

\* The positions of a grid holding v.
Holding(grid, v) == {p \in PositionSet(grid) : At(grid, p[1], p[2]) = v}

\* q lies at one of the six beehive offsets from p.
Adjacent(p, q) ==
  <<q[2] - p[2], q[1] - p[1]>> \in
    {<<-1, -1>>, <<-1, 1>>, <<1, -1>>, <<1, 1>>, <<0, -2>>, <<0, 2>>}

\* A Solution: every value of 1..N on exactly one non-null cell, none else,
\* and v + 1 on a cell adjacent to the cell of v.
IsSolution(grid) ==
  LET N == NonNullCount(grid)
  IN /\ \A v \in 1..N : Cardinality(Holding(grid, v)) = 1
     /\ \A p \in PositionSet(grid) : At(grid, p[1], p[2]) \in 1..N
     /\ \A v \in 1..(N - 1) :
          \A p \in Holding(grid, v) : \E q \in Holding(grid, v + 1) : Adjacent(p, q)

NoEmptyCell(grid) == Holding(grid, 0) = {}

NonZeroCells(grid) == {p \in PositionSet(grid) : At(grid, p[1], p[2]) # 0}

\* Some value v < N of the board has no adjacent cell holding v + 1.
BrokenLink(grid, N) ==
  \E p \in PositionSet(grid) :
    /\ At(grid, p[1], p[2]) < N
    /\ ~\E q \in PositionSet(grid) : Adjacent(p, q) /\ At(grid, q[1], q[2]) = At(grid, p[1], p[2]) + 1

OutOfRange(grid, N) ==
  \E p \in PositionSet(grid) : At(grid, p[1], p[2]) < 1 \/ At(grid, p[1], p[2]) > N

Duplicate(grid) ==
  \E p \in PositionSet(grid) : \E q \in PositionSet(grid) :
    p # q /\ At(grid, p[1], p[2]) = At(grid, q[1], q[2])

\* C1: for every side >= 1 and every start, the board generateHexHamiltonianPath
\* returns for generateHexGrid(side) passes checkSolution(board, N), N its
\* number of non-null cells.
C1_GeneratedPassesCheck ==
  (pc = "checked" /\ side >= 1) => verdict = TRUE

C1_Witness ==
  pc = "checked" /\ side = 3 /\ maxNumber = 19 /\ verdict = TRUE

\* C2: every board the generator returns holds each of 1..N exactly once on its
\* non-null cells, with v + 1 on a hex neighbour of v for every v in 1..N-1.
C2_ReturnedIsSolution ==
  pc \in {"returned", "checked", "puzzle"} =>
    /\ NonNullCount(solution) = NonNullCount(shape)
    /\ IsSolution(solution)

C2_Witness ==
  pc = "returned" /\ side = 3 /\ Holding(solution, 19) # {} /\ start = <<4, 2>>

\* C3: checkSolution(board, N) returns false for every fully filled board in
\* which some value v < N has no hex neighbour holding v + 1.
C3_BrokenLinkRejected ==
  (pc = "verdict" /\ NoEmptyCell(board) /\ BrokenLink(board, maxNumber)) => verdict = FALSE

\* C4: checkSolution(board, N) returns false for every board with a value
\* below 1 or above N, or with the same value on two cells.
C4_RangeAndDuplicateRejected ==
  (pc = "verdict" /\ (OutOfRange(board, maxNumber) \/ Duplicate(board))) => verdict = FALSE

\* C5: checkSolution returns false for every board with an Empty (0) cell,
\* whatever the other cells hold (both the hex and the square checker).
C5_EmptyCellRejected ==
  (pc = "verdict" /\ ~NoEmptyCell(board)) => (verdict = FALSE /\ verdictSq = FALSE)

\* An Empty cell in a column the checker's later loops never visit, every
\* other cell as generated.
C5_Witness ==
  /\ pc = "verdict" /\ edits = 1 /\ verdict = FALSE
  /\ \E p \in Holding(board, 0) : p[1] >= Len(board) /\ Holding(board, 0) = {p}

\* C6: maskHexGrid(solution, k) has exactly min(k, N - 2) + 2 nonzero cells and
\* each of them holds the solution's value at its position.
C6_MaskRevealCount ==
  pc = "puzzle" =>
    /\ Cardinality(NonZeroCells(puzzle)) = Min(revealCount, NonNullCount(solution) - 2) + 2
    /\ \A p \in NonZeroCells(puzzle) : At(puzzle, p[1], p[2]) = At(solution, p[1], p[2])

C6_Witness ==
  /\ pc = "puzzle" /\ side = 2 /\ revealCount = 3
  /\ Cardinality(NonZeroCells(puzzle)) = 5

\* C7: the puzzle holds 1 and N where the solution holds them, whatever the
\* shuffle draws; with revealCount = 0 no other cell is nonzero.
C7_AnchorsRevealed ==
  pc = "puzzle" =>
    LET N == NonNullCount(solution)
    IN /\ Holding(puzzle, 1) = Holding(solution, 1)
       /\ Holding(puzzle, N) = Holding(solution, N)
       /\ revealCount = 0 =>
            NonZeroCells(puzzle) = Holding(solution, 1) \cup Holding(solution, N)

C7_Witness ==
  /\ pc = "puzzle" /\ side = 2 /\ revealCount = 0
  /\ Cardinality(NonZeroCells(puzzle)) = 2

\* The number of non-null cells of row r (0-based) of a grid.
RowCells(grid, r) == Cardinality({p \in PositionSet(grid) : p[2] = r})

\* C8: generateHexGrid(side) has 2*side-1 rows, row r has side + min(r, 2*side-2-r)
\* non-null cells, all of them 0, and 3*side^2 - 3*side + 1 non-null cells in all.
C8_GridShape ==
  side >= 1 =>
    /\ Len(shape) = 2 * side - 1
    /\ \A r \in 0..(2 * side - 2) : RowCells(shape, r) = side + Min(r, 2 * side - 2 - r)
    /\ \A p \in PositionSet(shape) : At(shape, p[1], p[2]) = 0
    /\ NonNullCount(shape) = 3 * side * side - 3 * side + 1

C8_Witness ==
  pc = "shape" /\ side = 4 /\ NonNullCount(shape) = 37 /\ RowCells(shape, 5) = 5

\* C9 as stated: every row of generateHexGrid(side) is 2*(2*side-1) - 1 wide.
C9_WidthAsStated ==
  side >= 1 => \A r \in DOMAIN shape : Len(shape[r]) = 2 * (2 * side - 1) - 1

\* C9 amended: every row of generateHexGrid(side) is 2*(2*side-1) wide: pad
\* null cells, then each of the row's cells followed by one null spacer (the
\* last cell too), then pad null cells, pad = 2*side-1 minus the row's cells.
C9_RowLayout ==
  side >= 1 =>
    \A r \in 0..(Len(shape) - 1) :
      LET cells == side + Min(r, 2 * side - 2 - r)
          pad == (2 * side - 1) - cells
      IN /\ Len(shape[r + 1]) = 2 * (2 * side - 1)
         /\ \A c \in 0..(Len(shape[r + 1]) - 1) :
              (At(shape, c, r) # NULL) <=>
                (c >= pad /\ c < pad + 2 * cells /\ (c - pad) % 2 = 0)

C9_Witness ==
  pc = "shape" /\ side = 3 /\ Len(shape[1]) = 10 /\ At(shape, 2, 0) = 0 /\ At(shape, 9, 2) = NULL

\* C10: the hex and the square generator end by returning a board with no
\* Empty cell or by throwing; a thrown call returns no board.
C10_CompleteOrThrown ==
  /\ pc \in {"returned", "checked", "puzzle"} =>
       (solution # <<>> /\ NonNullCount(solution) = NonNullCount(shape) /\ NoEmptyCell(solution))
  /\ pc = "thrown" => solution = <<>>
  /\ pc = "sqReturned" =>
       (Len(sqGrid) = size /\ NonNullCount(sqGrid) = size * size /\ NoEmptyCell(sqGrid))
  /\ pc = "sqThrown" => sqGrid = <<>>

\* The hex generator has returned after giving a candidate up.
C10_Witness ==
  /\ pc = "returned" /\ shape = DetourShape /\ start = <<1, 0>>
  /\ At(solution, 1, 2) = 6 /\ NoEmptyCell(solution)

\* C11: generateHexGrid(side) returns a board only for side >= 1; a side <= 0
\* is rejected with an error, so no grid comes back from such a call.
C11_NonPositiveRejected ==
  (pc = "shape" /\ shape \notin OtherShapes) => side >= 1

\* The items of a sequence, as a set.
Range(seq) == {seq[i] : i \in DOMAIN seq}

\* C12: getHexNeighbors(x, y, board) returns exactly the positions (x+dx, y+dy),
\* (dy, dx) one of the six offsets, that are in-bounds and not Blocked, each
\* once: none that is Blocked or out of bounds, and every valid one.
C12_ExactNeighbors ==
  pc = "neighbors" =>
    LET expected ==
          {q \in {<<nbrAt[1] + o[2], nbrAt[2] + o[1]>> :
                    o \in {<<-1, -1>>, <<-1, 1>>, <<1, -1>>, <<1, 1>>, <<0, -2>>, <<0, 2>>}} :
             /\ q[2] \in 0..(Len(shape) - 1)
             /\ q[1] \in 0..(Len(shape[q[2] + 1]) - 1)
             /\ shape[q[2] + 1][q[1] + 1] # NULL}
    IN /\ Range(nbrResult) = expected
       /\ Len(nbrResult) = Cardinality(expected)

\* A rim cell of the side-3 hexagon, with Blocked and out-of-bounds positions
\* at three of its offsets.
C12_Witness ==
  /\ pc = "neighbors" /\ side = 3 /\ nbrAt = <<2, 0>>
  /\ nbrResult = << <<1, 1>>, <<3, 1>>, <<4, 0>> >>

\* C13: after generateHexHamiltonianPath, maskHexGrid or checkSolution every
\* cell of the board given to it holds what it held when the call began, and
\* the board the generator or the masker returns shares no row with it.
C13_InputUnchanged ==
  pc \in {"heapReturned", "heapThrown", "heapPuzzle", "heapChecked"} =>
    /\ Deref(heap, inRef) = inBefore
    /\ Range(outRef) \cap Range(inRef) = {}

\* The masker has returned a puzzle with hidden cells and the solution behind
\* its argument is still complete.
C13_Witness ==
  /\ pc = "heapPuzzle" /\ Len(heap) = 9
  /\ NoEmptyCell(Deref(heap, inRef)) /\ ~NoEmptyCell(Deref(heap, outRef))
  /\ NonNullCount(inBefore) = 7

\* Two boards have the same dimensions and the same Blocked positions.
SameBlocked(a, b) ==
  /\ Len(a) = Len(b)
  /\ \A r \in DOMAIN a :
       /\ Len(a[r]) = Len(b[r])
       /\ \A c \in DOMAIN a[r] : (a[r][c] = NULL) <=> (b[r][c] = NULL)

\* C14: the shape, the solution generated from it and the puzzle masked from
\* the solution have the same dimensions and the same set of Blocked positions.
C14_BlockedPreserved ==
  /\ pc \in {"returned", "checked", "puzzle"} => SameBlocked(shape, solution)
  /\ pc = "puzzle" => (SameBlocked(solution, puzzle) /\ SameBlocked(shape, puzzle))

C14_Witness ==
  /\ pc = "puzzle" /\ side = 2 /\ revealCount = 2
  /\ Len(puzzle) = 3 /\ Len(puzzle[2]) = 6 /\ At(puzzle, 1, 1) = NULL /\ At(shape, 1, 1) = NULL

\* k = floor(n * tenths / 10): the integer k with 10k <= n * tenths < 10(k + 1).
IsFloorOfTenths(k, n, tenths) == 10 * k <= n * tenths /\ n * tenths < 10 * (k + 1)

FractionTenths == [easy |-> 4, medium |-> 3, hard |-> 2]

\* C15 as stated: generateNewPuzzle gives the masker floor(totalCells * fraction)
\* and the puzzle shows floor(totalCells * fraction) + 2 nonzero cells.
C15_AsStated ==
  pc = "newPuzzle" =>
    /\ IsFloorOfTenths(revealCount, NonNullCount(solution), FractionTenths[difficulty])
    /\ Cardinality(NonZeroCells(puzzle)) = revealCount + 2

\* C15 amended: generateNewPuzzle gives the masker floor(totalCells * fraction),
\* fraction 0.4 / 0.3 / 0.2 for easy / medium / hard; for side >= 2 the puzzle
\* shows floor(totalCells * fraction) + 2 nonzero cells (7 for side 3, medium),
\* and for side 1 it shows its only cell.
C15_RevealCount ==
  pc = "newPuzzle" =>
    /\ IsFloorOfTenths(revealCount, NonNullCount(solution), FractionTenths[difficulty])
    /\ side >= 2 => Cardinality(NonZeroCells(puzzle)) = revealCount + 2
    /\ side = 1 => Cardinality(NonZeroCells(puzzle)) = 1
    /\ (side = 3 /\ difficulty = "medium") => Cardinality(NonZeroCells(puzzle)) = 7

C15_Witness ==
  /\ pc = "newPuzzle" /\ side = 3 /\ difficulty = "medium"
  /\ NonNullCount(solution) = 19 /\ revealCount = 5
  /\ Cardinality(NonZeroCells(puzzle)) = 7

\* Some sequence of adjacent cells goes on from p through every cell of cells
\* not yet in visited, each once.
RECURSIVE PathOnward(_, _, _)
PathOnward(cells, visited, p) ==
  \/ visited = cells
  \/ \E q \in cells \ visited : Adjacent(p, q) /\ PathOnward(cells, visited \cup {q}, q)

\* The shape has a Hamiltonian path beginning at st.
HasHamiltonianPathFrom(g, st) == PathOnward(PositionSet(g), {st}, st)

\* C16: generateHexHamiltonianPath(shape) throws if and only if the shape has
\* no Hamiltonian path beginning at the start it drew: a returned board is such
\* a path with 1 on the start, and a throw means no path from the start exists,
\* whatever the other cells allow.
C16_ExhaustiveFromStart ==
  /\ (pc \in {"returned", "checked", "puzzle", "newPuzzle"}) =>
       (At(solution, start[1], start[2]) = 1 /\ IsSolution(solution))
  /\ (pc = "thrown" /\ start # <<>>) => ~HasHamiltonianPathFrom(shape, start)

\* The generator has thrown from the middle of the row although the shape has
\* a path from its end.
C16_Witness ==
  /\ pc = "thrown" /\ shape = BranchShape /\ start = <<2, 0>>
  /\ HasHamiltonianPathFrom(shape, <<4, 0>>)

\* C17: generateWarnsdorffPath(size) makes at most 1000 restarts and throws
\* only when each of the 1000 was abandoned at a dead end; a restart that fills
\* all size * size cells makes the call return, for every size >= 1.
C17_ThrowsOnlyAfterAllFail ==
  /\ attempt <= maxTries
  /\ pc = "sqThrown" => attempt = maxTries

\* C18: when a commit (Enter, a click on another cell, a click outside) has
\* written a valid number, the checker was run on the board containing that
\* edit; so if the board is now a valid solution, onComplete was invoked.
C18_CommitChecksEditedBoard ==
  pc = "committed" =>
    /\ checkedGrid = board
    /\ IsSolution(board) => (verdict = TRUE /\ completions >= 1)

\* C19: at every point of the search the nonzero cells of the working board
\* are exactly the cells of the current path, the k-th holding k, consecutive
\* ones adjacent; when dfs(x, y, num) has returned false, (x, y) is 0 again
\* and the working board is the board as it was before that call.
C19_WorkingBoard ==
  pc \in {"dfsStart", "dfs", "dfsReturned", "dfsThrown"} =>
    /\ \A k \in DOMAIN frames :
         frames[k].num = k /\ At(working, frames[k].x, frames[k].y) = k
    /\ Cardinality(NonZeroCells(working)) = Len(frames)
    /\ \A k \in 1..(Len(frames) - 1) :
         Adjacent(<<frames[k].x, frames[k].y>>, <<frames[k + 1].x, frames[k + 1].y>>)
    /\ lastFalse # <<>> =>
         /\ At(working, lastFalse.x, lastFalse.y) = 0
         /\ working = lastFalse.before

\* A call in the middle of the path has returned false and the search goes on.
C19_Witness ==
  /\ pc = "dfs" /\ shape = DetourShape /\ lastFalse # <<>>
  /\ lastFalse.num >= 3 /\ Len(frames) = lastFalse.num - 1
  /\ Cardinality(NonZeroCells(working)) = lastFalse.num - 1

\* The board of a call when it sorts: the board before the call with the
\* call's own cell filled.
BoardAtSort(f) == SetCell(f.before, f.x, f.y, f.num)

\* The still-Empty hex neighbours of p on board b.
EmptyAround(b, p) == {q \in PositionSet(b) : Adjacent(p, q) /\ At(b, q[1], q[2]) = 0}

\* The place of q's offset from p in the neighbour offset list.
OffsetPlace(p, q) ==
  CHOOSE k \in 1..6 :
    << <<-1, -1>>, <<-1, 1>>, <<1, -1>>, <<1, 1>>, <<0, -2>>, <<0, 2>> >>[k]
      = <<q[2] - p[2], q[1] - p[1]>>

\* Candidate q1 of call f comes before candidate q2: fewer still-Empty
\* neighbours, or as many and an earlier offset.
ComesBefore(f, q1, q2) ==
  LET c1 == Cardinality(EmptyAround(BoardAtSort(f), q1))
      c2 == Cardinality(EmptyAround(BoardAtSort(f), q2))
  IN c1 < c2 \/ (c1 = c2 /\ OffsetPlace(<<f.x, f.y>>, q1) < OffsetPlace(<<f.x, f.y>>, q2))

\* The candidates call f has tried so far, in the order it tried them.
Tried(f) == SubSeq(f.neighbors, 1, f.i)

TriedInOrder(f) ==
  LET cands == EmptyAround(BoardAtSort(f), <<f.x, f.y>>)
  IN /\ Range(Tried(f)) \subseteq cands
     /\ \A a \in DOMAIN Tried(f) : \A b \in DOMAIN Tried(f) :
          a < b => ComesBefore(f, Tried(f)[a], Tried(f)[b])
     /\ \A q \in cands \ Range(Tried(f)) : \A a \in DOMAIN Tried(f) :
          ComesBefore(f, Tried(f)[a], q)

\* C20: every call of the search tries the still-Empty hex neighbours of its
\* cell in ascending order of their own number of still-Empty hex neighbours,
\* counted with the call's cell filled, equal counts in the order of the offset
\* list; the call in progress above it is on the candidate tried last, and a
\* call returns false only after trying them all.
C20_CandidateOrder ==
  pc \in {"dfs", "dfsReturned", "dfsThrown"} =>
    /\ \A k \in DOMAIN frames : TriedInOrder(frames[k])
    /\ \A k \in 1..(Len(frames) - 1) :
         /\ frames[k].i >= 1
         /\ Tried(frames[k])[frames[k].i] = <<frames[k + 1].x, frames[k + 1].y>>
    /\ lastFalse # <<>> =>
         /\ TriedInOrder(lastFalse)
         /\ Range(Tried(lastFalse)) = EmptyAround(BoardAtSort(lastFalse), <<lastFalse.x, lastFalse.y>>)

\* A call on the side-3 hexagon has taken the first of three candidates, two
\* of them with as many still-Empty neighbours as it.
C20_Witness ==
  /\ pc = "dfs" /\ shape = generateHexGrid(3)
  /\ \E k \in DOMAIN frames :
       LET f == frames[k]
           b == BoardAtSort(f)
       IN /\ f.i = 1 /\ Len(f.neighbors) >= 3
          /\ Cardinality({q \in EmptyAround(b, <<f.x, f.y>>) :
                            Cardinality(EmptyAround(b, q)) =
                              Cardinality(EmptyAround(b, f.neighbors[1]))}) >= 3

\* C21: from every shape with a non-Blocked cell and every start cell the hex
\* search eventually terminates, returning a board or throwing, and at no
\* moment is the path it holds, or a prefix of it, a path it has already
\* abandoned.
C21_Terminates ==
  /\ [](\A k \in 1..Len(frames) : SubSeq(PathOf(frames), 1, k) \notin abandoned)
  /\ <>(pc \in {"dfsReturned", "dfsThrown"})

\* The search from (2, 0) on the branch shape has thrown after abandoning
\* several paths, the one of the start cell alone last.
C21_Witness ==
  /\ pc = "dfsThrown" /\ shape = BranchShape /\ start = <<2, 0>>
  /\ Cardinality(abandoned) > 2
  /\ <<start>> \in abandoned

\* Position p of grid g is on the rim: in the first or the last row, or the
\* first or the last non-Blocked cell of its row.
OnRim(g, p) ==
  \/ p[2] \in {0, Len(g) - 1}
  \/ \A q \in PositionSet(g) : q[2] = p[2] => q[1] >= p[1]
  \/ \A q \in PositionSet(g) : q[2] = p[2] => q[1] <= p[1]

\* C22: on every board, q is among getHexNeighbors(p) exactly when p is among
\* getHexNeighbors(q), for non-Blocked p and q; on generateHexGrid(side) a
\* cell has at most six neighbours, and a cell not on the rim has six.
C22_SymmetricAdjacency ==
  (pc = "neighbors" /\ nbrAt \in PositionSet(shape)) =>
    /\ \A q \in PositionSet(shape) :
         q \in Range(nbrResult) <=> nbrAt \in Range(getHexNeighbors(q[1], q[2], shape))
    /\ side >= 1 =>
         /\ Cardinality(Range(nbrResult)) <= 6
         /\ ~OnRim(shape, nbrAt) => Cardinality(Range(nbrResult)) = 6

\* The centre cell of the side-3 hexagon has its six neighbours.
C22_Witness ==
  /\ pc = "neighbors" /\ side = 3 /\ nbrAt = <<4, 2>>
  /\ nbrResult = << <<3, 1>>, <<5, 1>>, <<3, 3>>, <<5, 3>>, <<2, 2>>, <<6, 2>> >>
====
